---- MODULE Spec2Model ----
(***************************************************************************)
(* Model of the retrieval pipeline of Project Danesh:                      *)
(* QueryMaster (src/src/query_master/rag_pipeline.py) as driven by the     *)
(* chat interface (src/src/query_master/ui.py).                            *)
(*                                                                         *)
(* Text that the code only passes around (questions, generated answers)    *)
(* is an opaque string.  Text that the code inspects (the re-rank          *)
(* response, document texts, node labels) is a sequence of one-character   *)
(* strings, and split / strip / int / lower / "in" are computed on it as   *)
(* Python computes them.                                                   *)
(***************************************************************************)
EXTENDS Integers, Sequences, FiniteSets, TLC

(***************************************************************************)
(* Program constants                                                       *)
(***************************************************************************)
VECTOR_SEARCH_TOP_K == 10

GRAPH_SEARCH_DEPTH == 2

RERANK_TOP_N == 3

\* rag_pipeline.py:159 "Unfortunately, no relevant information was found in
\* the available sources to answer your question."
NOT_FOUND_MSG == "not found: no relevant information in the available sources"

\* rag_pipeline.py:164 "After review, no precise information was found to
\* answer your question."
NO_PRECISE_MSG == "after review: no precise information found"

\* rag_pipeline.py:180 "An error occurred while generating the answer.
\* Please try again."
APOLOGY_MSG == "error while generating the answer, please try again"

\* rag_pipeline.py:140
NO_GRAPH_CONTEXT_TEXT == "No additional context found."

(***************************************************************************)
(* Bounds of the model                                                     *)
(***************************************************************************)
\* longest enumerated re-rank response, in characters
MaxRespLen == 3

(***************************************************************************)
(* Python text primitives on sequences of characters                       *)
(***************************************************************************)
Digits == {"0", "1", "2", "3", "4", "5", "6", "7", "8", "9"}

Whitespace == {" "}

Signs == {"-", "+"}

DigitVal(ch) ==
  CASE ch = "0" -> 0 [] ch = "1" -> 1 [] ch = "2" -> 2 [] ch = "3" -> 3
    [] ch = "4" -> 4 [] ch = "5" -> 5 [] ch = "6" -> 6 [] ch = "7" -> 7
    [] ch = "8" -> 8 [] ch = "9" -> 9

Min(a, b) == IF a <= b THEN a ELSE b

\* docs[:n]
Take(s, n) == SubSeq(s, 1, Min(n, Len(s)))

\* str.strip(): drop leading and trailing whitespace
RECURSIVE LStrip(_)
LStrip(s) ==
  IF s # << >> /\ Head(s) \in Whitespace THEN LStrip(Tail(s)) ELSE s

RECURSIVE RStrip(_)
RStrip(s) ==
  IF s # << >> /\ s[Len(s)] \in Whitespace
  THEN RStrip(SubSeq(s, 1, Len(s) - 1))
  ELSE s

Strip(s) == RStrip(LStrip(s))

\* str.split(','): the pieces between commas; "" splits into [""]
RECURSIVE SplitFrom(_, _, _)
SplitFrom(s, cur, acc) ==
  IF s = << >> THEN Append(acc, cur)
  ELSE IF Head(s) = "," THEN SplitFrom(Tail(s), << >>, Append(acc, cur))
  ELSE SplitFrom(Tail(s), Append(cur, Head(s)), acc)

Split(s) == SplitFrom(s, << >>, << >>)

\* value of a non-empty run of decimal digits
RECURSIVE DecValue(_, _)
DecValue(s, acc) ==
  IF s = << >> THEN acc ELSE DecValue(Tail(s), 10 * acc + DigitVal(Head(s)))

AllDigits(s) == s # << >> /\ \A i \in 1..Len(s) : s[i] \in Digits

\* the outcome of an expression that may raise: exc = "" when it returned
Value(v) == [exc |-> "", val |-> v]

Raise(name) == [exc |-> name, val |-> << >>]

\* a conversion that reads the empty string as 0
PyIntEmptyZero(s) ==
  LET t == Strip(s)
      signed == t # << >> /\ Head(t) \in Signs
      body == IF signed THEN Tail(t) ELSE t
  IN  IF t = << >> THEN Value(0)
      ELSE IF ~AllDigits(body) THEN Raise("ValueError")
      ELSE IF signed /\ Head(t) = "-" THEN Value(0 - DecValue(body, 0))
      ELSE Value(DecValue(body, 0))

\* int(s): optional surrounding whitespace, optional sign, then digits;
\* anything else is a ValueError
PyInt(s) ==
  LET t == Strip(s)
      signed == t # << >> /\ Head(t) \in Signs
      body == IF signed THEN Tail(t) ELSE t
  IN  IF ~AllDigits(body) THEN Raise("ValueError")
      ELSE IF signed /\ Head(t) = "-" THEN Value(0 - DecValue(body, 0))
      ELSE Value(DecValue(body, 0))

\* str.lower() on the letters the model uses
LowerCh(ch) ==
  CASE ch = "A" -> "a" [] ch = "B" -> "b" [] ch = "C" -> "c" [] OTHER -> ch

Lower(s) == [i \in 1..Len(s) |-> LowerCh(s[i])]

\* s in t
IsSubstr(s, t) ==
  \E i \in 0..(Len(t) - Len(s)) : SubSeq(t, i + 1, i + Len(s)) = s

(***************************************************************************)
(* The backing stores the orchestrator is constructed over                 *)
(***************************************************************************)
\* texts of the indexed chunks
DocTexts ==
  << <<"A", "b">>, <<"x">>, <<"c", "x">>, <<"x", "a">>, <<"B">>, <<"y">>,
     <<"z">>, <<"x", "y">>, <<"y", "z">>, <<"z", "x">>, <<"y", "x">> >>

\* every indexed chunk carries the file it was split from as 'source'
DocSources ==
  << "f1", "f1", "f1", "f2", "f2", "f2", "f3", "f3", "f3", "f4", "f4" >>

MakeDoc(text, source) == [text |-> text, metadata |-> [source |-> source]]

IndexedChunks ==
  [i \in 1..Len(DocTexts) |-> MakeDoc(DocTexts[i], DocSources[i])]

\* knowledge graphs: node labels in file order, adjacency in file order
GraphIsolated ==
  [nodes |-> << <<"a">>, <<"B">> >>,
   adj   |-> (<<"a">> :> << >>) @@ (<<"B">> :> << >>)]

GraphPath ==
  [nodes |-> << <<"a">>, <<"B">>, <<"c">>, <<"q">> >>,
   adj   |-> (<<"a">> :> << <<"B">> >>)
          @@ (<<"B">> :> << <<"a">>, <<"c">> >>)
          @@ (<<"c">> :> << <<"B">>, <<"q">> >>)
          @@ (<<"q">> :> << <<"c">> >>)]

\* a-B, B-c, c-a and c-q: two ways from a to c
GraphCycle ==
  [nodes |-> << <<"a">>, <<"B">>, <<"c">>, <<"q">> >>,
   adj   |-> (<<"a">> :> << <<"B">>, <<"c">> >>)
          @@ (<<"B">> :> << <<"a">>, <<"c">> >>)
          @@ (<<"c">> :> << <<"B">>, <<"a">>, <<"q">> >>)
          @@ (<<"q">> :> << <<"c">> >>)]

Graphs == {GraphIsolated, GraphPath, GraphCycle}

\* prompts/rag_prompt.txt: literal text around the three substitution points
RagPromptTemplate ==
  << [slot |-> "literal", text |-> "answer from the context"],
     [slot |-> "vector_context", text |-> ""],
     [slot |-> "graph_context", text |-> ""],
     [slot |-> "user_question", text |-> ""] >>

(***************************************************************************)
(* Outcomes of the external services                                       *)
(***************************************************************************)
Failed == [ok |-> FALSE]

Returned(t) == [ok |-> TRUE, text |-> t]

Questions == {"q1", "q2"}

HypotheticalTexts == {"hyde text"}

AnswerTexts == {"answer text 1", "answer text 2"}

\* characters of the enumerated re-rank responses
RespAlphabet == {"0", "1", ",", " ", "-", "n"}

RECURSIVE SeqsUpTo(_, _)
SeqsUpTo(S, n) ==
  IF n = 0 THEN {<< >>}
  ELSE LET shorter == SeqsUpTo(S, n - 1)
       IN  shorter \cup {Append(s, ch) : s \in shorter, ch \in S}

\* responses named by the specification's scenarios
ScenarioResponses ==
  { <<"n", "o", "t", "e", ":", " ", "3", ",", " ", "1", ",", " ", "1", ",",
      " ", "9">>,
    <<"3", ",", " ", "1", ",", " ", "1", ",", " ", "9">>,
    <<"1", "1", ",", "1", "2">>,
    <<"1", ",", "2", ",", "3", ",", "4">>,
    <<"3", ",", "1", ",", "2">>,
    <<"2", ",", "2">>,
    <<"-", "9">>,
    <<"I", " ", "c", "a", "n", "n", "o", "t">> }

RerankResponses == SeqsUpTo(RespAlphabet, MaxRespLen) \cup ScenarioResponses

(***************************************************************************)
(* QueryMaster._generate_hypothetical_answer                               *)
(***************************************************************************)
\* a fallback that returns nothing to search with
GenerateHypotheticalAnswerNoFallback(query_text, gen) ==
  IF gen.ok THEN gen.text ELSE ""

GenerateHypotheticalAnswer(query_text, gen) ==
  IF gen.ok THEN gen.text ELSE query_text

(***************************************************************************)
(* QueryMaster._search_vector_store                                        *)
(* embed: outcome of the embedding call; hits: outcome of collection.query *)
(* (hits.text is the list of documents returned)                           *)
(***************************************************************************)
\* an embedding failure that does not stop the index query
SearchVectorStoreUnguarded(embed, hits) ==
  IF ~hits.ok THEN << >> ELSE hits.text

\* a failure answered with the first chunk of the collection
SearchVectorStoreDefaulting(embed, hits) ==
  IF ~embed.ok \/ ~hits.ok THEN << IndexedChunks[1] >> ELSE hits.text

SearchVectorStore(embed, hits) ==
  IF ~embed.ok \/ ~hits.ok THEN << >> ELSE hits.text

\* the results the index returns: <<number of hits, first hit>>; n_results
\* caps the number at top-K
HitShapes ==
  {<<0, 1>>, <<1, 1>>, <<3, 1>>, <<4, 1>>, <<VECTOR_SEARCH_TOP_K, 1>>,
   <<3, 5>>}

\* n chunks of the collection, ranked from chunk r on
Hits(collection, n, r) ==
  [i \in 1..n |-> collection[((r + i - 2) % Len(collection)) + 1]]

(***************************************************************************)
(* QueryMaster._rerank_documents                                           *)
(***************************************************************************)
\* a parser that skips the pieces that are not numbers
ParseIndicesSkipping(text) ==
  LET pieces == Split(text)
      good == SelectSeq(pieces, LAMBDA q : PyInt(Strip(q)).exc = "")
  IN  IF good = << >> THEN Raise("ValueError")
      ELSE Value([k \in 1..Len(good) |-> PyInt(Strip(good[k])).val - 1])

\* [int(i.strip()) - 1 for i in response.text.split(',')]
ParseIndices(text) ==
  LET pieces == Split(text)
      vals == [k \in 1..Len(pieces) |-> PyInt(Strip(pieces[k]))]
  IN  IF \E k \in 1..Len(pieces) : vals[k].exc # ""
      THEN Raise("ValueError")
      ELSE Value([k \in 1..Len(pieces) |-> vals[k].val - 1])

\* docs[i] for a Python list: negative i counts from the end
PyIndex(docs, i) ==
  IF 0 <= i /\ i < Len(docs) THEN Value(docs[i + 1])
  ELSE IF i < 0 /\ 0 - i <= Len(docs) THEN Value(docs[Len(docs) + i + 1])
  ELSE Raise("IndexError")

\* a filter that is off by one
IndexAcceptedOffByOne(docs, i) == i <= Len(docs)

\* the filter of the comprehension: "if i < len(docs)"
IndexAccepted(docs, i) == i < Len(docs)

UsedIndices(docs, indices) ==
  SelectSeq(indices, LAMBDA i : IndexAccepted(docs, i))

\* a selection that keeps the candidates in the order of the candidate list
SelectDocsInListOrder(docs, indices) ==
  Value(SelectSeq(docs, LAMBDA d :
          \E k \in 1..Len(indices), j \in 1..Len(docs) :
            indices[k] = j - 1 /\ docs[j] = d))

\* [docs[i] for i in relevant_indices if i < len(docs)]
SelectDocs(docs, indices) ==
  LET used == UsedIndices(docs, indices)
      picked == [k \in 1..Len(used) |-> PyIndex(docs, used[k])]
  IN  IF \E k \in 1..Len(used) : picked[k].exc # ""
      THEN Raise("IndexError")
      ELSE Value([k \in 1..Len(used) |-> picked[k].val])

\* the body of the try block: the selection, or the exception it raises
TryRerank(docs, gen) ==
  IF ~gen.ok THEN Raise("GenerationError")
  ELSE LET parsed == ParseIndices(gen.text)
       IN  IF parsed.exc # "" THEN parsed ELSE SelectDocs(docs, parsed.val)

\* a handler written for the parse error only
RerankCaughtValueErrorOnly(name) == name = "ValueError"

\* "except Exception": the exceptions the handler catches
RerankCaught(name) == TRUE

\* docs: the list returned; raised: an exception left the function;
\* called: the generation service was called; fallback: the except branch
\* ran; parsed: relevant_indices; used: the indices that indexed docs
RerankDocuments(docs, query, gen) ==
  LET none == [docs |-> << >>, raised |-> FALSE, called |-> FALSE,
               fallback |-> FALSE, parsed |-> << >>, used |-> << >>]
  IN  IF docs = << >> THEN none
      ELSE LET tried == TryRerank(docs, gen)
               parsed == IF gen.ok THEN ParseIndices(gen.text)
                         ELSE Raise("GenerationError")
               indices == IF parsed.exc = "" THEN parsed.val ELSE << >>
           IN  IF tried.exc # ""
               THEN IF RerankCaught(tried.exc)
                    THEN [none EXCEPT !.docs = Take(docs, RERANK_TOP_N),
                                      !.called = TRUE, !.fallback = TRUE,
                                      !.parsed = indices]
                    ELSE [none EXCEPT !.raised = TRUE, !.called = TRUE,
                                      !.parsed = indices]
               ELSE [none EXCEPT !.docs = tried.val, !.called = TRUE,
                                 !.parsed = indices,
                                 !.used = UsedIndices(docs, indices)]

(***************************************************************************)
(* QueryMaster._search_knowledge_graph                                     *)
(***************************************************************************)
Range(f) == {f[i] : i \in DOMAIN f}

\* the orders in which a Python set may be iterated
Orders(S) ==
  {f \in [1..Cardinality(S) -> S] :
     \A i, j \in 1..Cardinality(S) : i # j => f[i] # f[j]}

\* nx.bfs_edges(G, source, depth_limit): the targets of the tree edges, in
\* the order they are discovered
RECURSIVE BfsQueue(_, _, _, _)
BfsQueue(G, queue, visited, out) ==
  IF queue = << >> THEN out
  ELSE LET parent == Head(queue).node
           depth_now == Head(queue).depth
           fresh == SelectSeq(G.adj[parent], LAMBDA n : n \notin visited)
           deeper == IF depth_now > 1
                     THEN [k \in 1..Len(fresh) |->
                             [node |-> fresh[k], depth |-> depth_now - 1]]
                     ELSE << >>
       IN  BfsQueue(G, Tail(queue) \o deeper, visited \cup Range(fresh),
                    out \o fresh)

\* a traversal that goes one level further than asked
BfsTargetsOneDeeper(G, source, depth_limit) ==
  BfsQueue(G, << [node |-> source, depth |-> depth_limit + 1] >>, {source},
           << >>)

BfsTargets(G, source, depth_limit) ==
  BfsQueue(G, << [node |-> source, depth |-> depth_limit] >>, {source}, << >>)

\* a scan that compares the label and the text as written
FoundNodesCaseSensitive(G, docs) ==
  {node \in Range(G.nodes) :
     \E k \in 1..Len(docs) : IsSubstr(node, docs[k].text)}

\* the nodes whose label occurs in the text of a document
FoundNodes(G, docs) ==
  {node \in Range(G.nodes) :
     \E k \in 1..Len(docs) : IsSubstr(Lower(node), Lower(docs[k].text))}

NONE_TEXT == <<"N", "o", "n", "e">>

\* a line that leaves the list of an isolated node blank
TopicLineBlank(G, node) ==
  [topic |-> node, related |-> BfsTargets(G, node, GRAPH_SEARCH_DEPTH)]

\* "- For topic '<node>', related concepts are: <items or None>"
TopicLine(G, node) ==
  LET related_items == BfsTargets(G, node, GRAPH_SEARCH_DEPTH)
  IN  [topic |-> node,
       related |-> IF related_items # << >> THEN related_items
                   ELSE << NONE_TEXT >>]

NO_GRAPH_CONTEXT == [text |-> NO_GRAPH_CONTEXT_TEXT, lines |-> << >>]

\* a lookup that returns the empty summary when nothing matched
SearchKnowledgeGraphNoPlaceholder(G, retrieved_docs, order) ==
  [text |-> "", lines |-> [k \in 1..Len(order) |-> TopicLine(G, order[k])]]

\* order: the iteration order of the set found_nodes
SearchKnowledgeGraph(G, retrieved_docs, order) ==
  IF FoundNodes(G, retrieved_docs) = {} THEN NO_GRAPH_CONTEXT
  ELSE [text |-> "",
        lines |-> [k \in 1..Len(order) |-> TopicLine(G, order[k])]]

(***************************************************************************)
(* Context assembly of QueryMaster.answer_question                         *)
(***************************************************************************)
\* "Source: <source>\nContent: <text>\n\n" for each selected document
VectorContext(docs) ==
  IF \E k \in 1..Len(docs) : "source" \notin DOMAIN docs[k].metadata
  THEN Raise("KeyError")
  ELSE Value([k \in 1..Len(docs) |->
                [source |-> docs[k].metadata.source,
                 content |-> docs[k].text]])

\* str.format(**args) on the template
Format(template, args) ==
  IF \E k \in 1..Len(template) :
       template[k].slot \notin ({"literal"} \cup DOMAIN args)
  THEN Raise("KeyError")
  ELSE Value([k \in 1..Len(template) |->
                IF template[k].slot = "literal"
                THEN [slot |-> "literal", value |-> template[k].text]
                ELSE [slot |-> template[k].slot,
                      value |-> args[template[k].slot]]])

(***************************************************************************)
(* State                                                                   *)
(***************************************************************************)
\* calls of answer_question that can be in progress
CallIds == {1, 2}

VARIABLES
  app,                  \* where create_chatbot_interface stands
  services,             \* which answers the external services may give
  self,                 \* the fields of the QueryMaster instance
  pc,                   \* where each call of answer_question stands
  user_question,        \* its argument
  hypothetical_answer,  \* its locals ...
  initial_docs,
  reranked,             \* what _rerank_documents did in this call
  relevant_docs,
  final_prompt,
  result,               \* the string returned
  raised,               \* an exception left answer_question
  log,                  \* the calls made to the external services
  weaver,               \* a run of one of the two graph builders
  extraction,           \* the files and the run of 03_graph_builder.main
  enhancer              \* the files and the run of main_relation_enhancer.main

\* the offline programs that prepare the graph
batch == << weaver, extraction, enhancer >>

\* the chat application
chat == << app, services, self, pc, user_question, hypothetical_answer,
           initial_docs, reranked, relevant_docs, final_prompt, result,
           raised, log >>

vars == << app, services, self, pc, user_question, hypothetical_answer, initial_docs,
           reranked, relevant_docs, final_prompt, result, raised, log,
           weaver, extraction, enhancer >>

\* no builder has been called
WeaverIdle ==
  [builder |-> "none", input |-> << >>, fed |-> 0, nodes |-> {},
   edges |-> {}]

AbsentFile == [state |-> "absent", data |-> << >>]

\* 03_graph_builder is not running and has no files
ExtractionIdle ==
  [pc |-> "off", input_file |-> AbsentFile, checkpoint_file |-> AbsentFile,
   graph_file |-> AbsentFile, knowledge_chunks |-> << >>,
   chunks_with_entities |-> << >>, i |-> 0, sent |-> << >>,
   saved |-> {}, resent |-> {}, crashes |-> 0]

\* main_relation_enhancer is not running and has no files
EnhancerIdle ==
  [pc |-> "off", edges |-> << >>, relationship |-> "",
   checkpoint_file |-> AbsentFile, output_file |-> AbsentFile,
   enhanced_relations |-> << >>, i |-> 0, start_index |-> 0,
   covered |-> 0, covered_at_start |-> 0, crashes |-> 0]

BatchIdle ==
  /\ weaver = WeaverIdle
  /\ extraction = ExtractionIdle
  /\ enhancer = EnhancerIdle

NotReranked ==
  [docs |-> << >>, raised |-> FALSE, called |-> FALSE, fallback |-> FALSE,
   parsed |-> << >>, used |-> << >>]

\* the resources __init__ loads, in its order
Resources == << "models", "vector_store", "knowledge_graph", "prompt_template" >>

\* every answer the services are modelled to give
AllServices ==
  [hyde_texts |-> HypotheticalTexts, hit_shapes |-> HitShapes,
   rerank_texts |-> RerankResponses, answer_texts |-> AnswerTexts]

\* one answer of each kind: no hit and some hits; a response that selects,
\* one that does not parse, one above the range, one below it, one that
\* indexes before the list, one that selects more than RERANK_TOP_N
FewServices ==
  [hyde_texts |-> HypotheticalTexts,
   hit_shapes |-> {<<0, 1>>, <<3, 1>>, <<4, 1>>},
   rerank_texts |-> {<<"1">>, <<"n">>, <<"1", "1">>, <<"0">>, <<"-", "9">>,
                     <<"1", ",", "2", ",", "3", ",", "4">>},
   answer_texts |-> {"answer text 1"}]

\* a hit or none; a response that selects and one that does not parse
PairServices ==
  [hyde_texts |-> HypotheticalTexts,
   hit_shapes |-> {<<0, 1>>, <<3, 1>>},
   rerank_texts |-> {<<"1">>, <<"n">>},
   answer_texts |-> {"answer text 1"}]

Offered(name) ==
  CASE name = "few" -> FewServices
    [] name = "pair" -> PairServices
    [] OTHER -> AllServices

\* the fields after a successful __init__ over graph g
Constructed(g) ==
  [text_model |-> "gemini-1.5-flash",
   embedding_model_name |-> "models/text-embedding-004",
   collection |-> IndexedChunks,
   graph |-> g,
   rag_prompt_template |-> RagPromptTemplate]

Launched ==
  [stage |-> "launched", loaded |-> Range(Resources), failed |-> ""]

\* the interface is up over a constructed orchestrator, no message yet
Serving(sv) ==
  /\ app = Launched
  /\ services = sv
  /\ \E g \in Graphs : self = Constructed(g)
  /\ pc = [c \in CallIds |-> "idle"]
  /\ user_question = [c \in CallIds |-> ""]
  /\ hypothetical_answer = [c \in CallIds |-> ""]
  /\ initial_docs = [c \in CallIds |-> << >>]
  /\ reranked = [c \in CallIds |-> NotReranked]
  /\ relevant_docs = [c \in CallIds |-> << >>]
  /\ final_prompt = [c \in CallIds |-> << >>]
  /\ result = [c \in CallIds |-> ""]
  /\ raised = [c \in CallIds |-> FALSE]
  /\ log = [c \in CallIds |-> << >>]
  /\ BatchIdle

Init == Serving("all")

Called(svc, arg, out) == [svc |-> svc, arg |-> arg, out |-> out]

(***************************************************************************)
(* chat_response: the interface calls answer_question(message)             *)
(***************************************************************************)
Ask(c) ==
  /\ app.stage = "launched"
  /\ pc[c] = "idle"
  /\ \E q \in Questions : user_question' = [user_question EXCEPT ![c] = q]
  /\ pc' = [pc EXCEPT ![c] = "EXPAND"]
  /\ hypothetical_answer' = [hypothetical_answer EXCEPT ![c] = ""]
  /\ initial_docs' = [initial_docs EXCEPT ![c] = << >>]
  /\ reranked' = [reranked EXCEPT ![c] = NotReranked]
  /\ relevant_docs' = [relevant_docs EXCEPT ![c] = << >>]
  /\ final_prompt' = [final_prompt EXCEPT ![c] = << >>]
  /\ result' = [result EXCEPT ![c] = ""]
  /\ raised' = [raised EXCEPT ![c] = FALSE]
  /\ log' = [log EXCEPT ![c] = << >>]
  /\ UNCHANGED << batch, app, services, self >>

(***************************************************************************)
(* answer_question, step 1: the hypothetical answer                        *)
(***************************************************************************)
\* a failed expansion that is tried again
ExpandRetrying(c) ==
  /\ pc[c] = "EXPAND"
  /\ \E gen \in {Failed} \cup {Returned(t) : t \in Offered(services).hyde_texts} :
       /\ hypothetical_answer' =
            [hypothetical_answer EXCEPT
               ![c] = GenerateHypotheticalAnswer(user_question[c], gen)]
       /\ log' = [log EXCEPT
                    ![c] = Append(@, Called("generate_hyde",
                                            user_question[c], gen))]
       /\ pc' = [pc EXCEPT ![c] = IF gen.ok THEN "RETRIEVE" ELSE "EXPAND"]
  /\ UNCHANGED << batch, app, services, self, user_question, initial_docs, reranked,
                  relevant_docs, final_prompt, result, raised >>

\* a hypothetical answer kept in a field every call reads
ExpandShared(c) ==
  /\ pc[c] = "EXPAND"
  /\ \E gen \in {Failed} \cup {Returned(t) : t \in Offered(services).hyde_texts} :
       /\ hypothetical_answer' =
            [k \in CallIds |->
               GenerateHypotheticalAnswer(user_question[c], gen)]
       /\ log' = [log EXCEPT
                    ![c] = Append(@, Called("generate_hyde",
                                            user_question[c], gen))]
  /\ pc' = [pc EXCEPT ![c] = "RETRIEVE"]
  /\ UNCHANGED << batch, app, services, self, user_question, initial_docs, reranked,
                  relevant_docs, final_prompt, result, raised >>

Expand(c) ==
  /\ pc[c] = "EXPAND"
  /\ \E gen \in {Failed} \cup {Returned(t) : t \in Offered(services).hyde_texts} :
       /\ hypothetical_answer' =
            [hypothetical_answer EXCEPT
               ![c] = GenerateHypotheticalAnswer(user_question[c], gen)]
       /\ log' = [log EXCEPT
                    ![c] = Append(@, Called("generate_hyde",
                                            user_question[c], gen))]
  /\ pc' = [pc EXCEPT ![c] = "RETRIEVE"]
  /\ UNCHANGED << batch, app, services, self, user_question, initial_docs, reranked,
                  relevant_docs, final_prompt, result, raised >>

(***************************************************************************)
(* answer_question, step 2: vector search and the empty-result exit        *)
(***************************************************************************)
Embedding(text) == << "embedding of", text >>

\* the empty-result exit left out
NoResultsIgnored(docs) == FALSE

\* "if not initial_docs"
NoResults(docs) == docs = << >>

Retrieve(c) ==
  /\ pc[c] = "RETRIEVE"
  /\ \E embed \in {Failed, Returned(Embedding(hypothetical_answer[c]))},
        hits \in {Failed} \cup
                 {Returned(Hits(self.collection, h[1], h[2])) :
                    h \in Offered(services).hit_shapes} :
       LET docs == SearchVectorStore(embed, hits)
           embed_call == Called("embed", hypothetical_answer[c], embed)
           query_call == Called("query", embed.text, hits)
       IN  /\ initial_docs' = [initial_docs EXCEPT ![c] = docs]
           /\ log' = [log EXCEPT
                        ![c] = IF embed.ok
                               THEN Append(Append(@, embed_call), query_call)
                               ELSE Append(@, embed_call)]
           /\ IF NoResults(docs)
              THEN /\ result' = [result EXCEPT ![c] = NOT_FOUND_MSG]
                   /\ pc' = [pc EXCEPT ![c] = "END"]
              ELSE /\ result' = result
                   /\ pc' = [pc EXCEPT ![c] = "RERANK"]
  /\ UNCHANGED << batch, app, services, self, user_question, hypothetical_answer,
                  reranked, relevant_docs, final_prompt, raised >>

(***************************************************************************)
(* answer_question, step 3: re-ranking and the empty-selection exit        *)
(***************************************************************************)
\* an exit taken whatever was selected
NoSelectionAlways(docs) == TRUE

\* the empty-selection exit left out
NoSelectionIgnored(docs) == FALSE

\* the expansion passed on in place of the question
QuestionAskedExpanded(question, expansion) == expansion

\* the question the re-rank prompt and the final prompt are given:
\* answer_question passes user_question to both
QuestionAsked(question, expansion) == question

\* "if not relevant_docs"
NoSelection(docs) == docs = << >>

Rerank(c) ==
  /\ pc[c] = "RERANK"
  /\ \E gen \in {Failed} \cup {Returned(t) : t \in Offered(services).rerank_texts} :
       LET query == QuestionAsked(user_question[c], hypothetical_answer[c])
           rr == RerankDocuments(initial_docs[c], query, gen)
           gen_call == Called("generate_rerank",
                              [docs |-> initial_docs[c], query |-> query],
                              gen)
       IN  /\ reranked' = [reranked EXCEPT ![c] = rr]
           /\ relevant_docs' = [relevant_docs EXCEPT ![c] = rr.docs]
           /\ log' = [log EXCEPT
                        ![c] = IF rr.called THEN Append(@, gen_call) ELSE @]
           /\ IF rr.raised
              THEN /\ raised' = [raised EXCEPT ![c] = TRUE]
                   /\ result' = result
                   /\ pc' = [pc EXCEPT ![c] = "END"]
              ELSE IF NoSelection(rr.docs)
              THEN /\ raised' = raised
                   /\ result' = [result EXCEPT ![c] = NO_PRECISE_MSG]
                   /\ pc' = [pc EXCEPT ![c] = "END"]
              ELSE /\ raised' = raised
                   /\ result' = result
                   /\ pc' = [pc EXCEPT ![c] = "ASSEMBLE"]
  /\ UNCHANGED << batch, app, services, self, user_question, hypothetical_answer,
                  initial_docs, final_prompt >>

(***************************************************************************)
(* answer_question, steps 4 and 5: vector context, graph context, prompt   *)
(***************************************************************************)
\* a traversal that consumes the edges it walks
GraphAfterLookupConsuming(G, found) ==
  [G EXCEPT !.adj = [n \in DOMAIN G.adj |->
                       IF n \in found THEN << >> ELSE G.adj[n]]]

\* the graph after the scan and the traversals from the found nodes: they
\* only read it
GraphAfterLookup(G, found) == G

\* a prompt that is written back over the template
TemplateAfterFormatOverwritten(template, prompt) == prompt

\* the template after str.format: format returns a new string
TemplateAfterFormat(template, prompt) == template

Assemble(c) ==
  /\ pc[c] = "ASSEMBLE"
  /\ \E order \in Orders(FoundNodes(self.graph, relevant_docs[c])) :
       LET vector_context_str == VectorContext(relevant_docs[c])
           graph_context_str ==
             SearchKnowledgeGraph(self.graph, relevant_docs[c], order)
           prompt == Format(self.rag_prompt_template,
                            [vector_context |-> vector_context_str.val,
                             graph_context |-> graph_context_str,
                             user_question |->
                               QuestionAsked(user_question[c],
                                             hypothetical_answer[c])])
           graph_call == Called("graph_lookup", relevant_docs[c],
                                Returned(graph_context_str))
           looked == [self EXCEPT
                        !.graph = GraphAfterLookup(
                                    @, FoundNodes(@, relevant_docs[c]))]
       IN  IF vector_context_str.exc # ""
           THEN /\ raised' = [raised EXCEPT ![c] = TRUE]
                /\ pc' = [pc EXCEPT ![c] = "END"]
                /\ UNCHANGED << self, final_prompt, log >>
           ELSE /\ log' = [log EXCEPT ![c] = Append(@, graph_call)]
                /\ IF prompt.exc # ""
                   THEN /\ raised' = [raised EXCEPT ![c] = TRUE]
                        /\ pc' = [pc EXCEPT ![c] = "END"]
                        /\ self' = looked
                        /\ UNCHANGED final_prompt
                   ELSE /\ final_prompt' =
                             [final_prompt EXCEPT ![c] = prompt.val]
                        /\ pc' = [pc EXCEPT ![c] = "GENERATE"]
                        /\ self' = [looked EXCEPT
                                      !.rag_prompt_template =
                                        TemplateAfterFormat(@, prompt.val)]
                        /\ UNCHANGED raised
  /\ UNCHANGED << batch, app, services, user_question, hypothetical_answer,
                  initial_docs, reranked, relevant_docs, result >>

(***************************************************************************)
(* answer_question, final generation                                       *)
(***************************************************************************)
\* a failed final generation that sends the query back to context assembly
GenerateRetrying(c) ==
  /\ pc[c] = "GENERATE"
  /\ \E gen \in {Failed} \cup {Returned(t) : t \in Offered(services).answer_texts} :
       /\ result' = [result EXCEPT ![c] = IF gen.ok THEN gen.text ELSE @]
       /\ pc' = [pc EXCEPT ![c] = IF gen.ok THEN "END" ELSE "ASSEMBLE"]
       /\ log' = [log EXCEPT
                    ![c] = Append(@, Called("generate_final",
                                            final_prompt[c], gen))]
  /\ UNCHANGED << batch, app, services, self, user_question, hypothetical_answer,
                  initial_docs, reranked, relevant_docs, final_prompt,
                  raised >>

\* a step that answers with the fixed string whatever the service returned
FinalAnswerAlwaysApology(gen) == APOLOGY_MSG

\* a failure handler that returns nothing to show
FinalAnswerEmpty(gen) == IF gen.ok THEN gen.text ELSE ""

FinalAnswer(gen) == IF gen.ok THEN gen.text ELSE APOLOGY_MSG

Generate(c) ==
  /\ pc[c] = "GENERATE"
  /\ \E gen \in {Failed} \cup {Returned(t) : t \in Offered(services).answer_texts} :
       /\ result' = [result EXCEPT ![c] = FinalAnswer(gen)]
       /\ log' = [log EXCEPT
                    ![c] = Append(@, Called("generate_final",
                                            final_prompt[c], gen))]
  /\ pc' = [pc EXCEPT ![c] = "END"]
  /\ UNCHANGED << batch, app, services, self, user_question, hypothetical_answer,
                  initial_docs, reranked, relevant_docs, final_prompt,
                  raised >>

(***************************************************************************)
(* chat_response hands the answer to the interface; the next message may   *)
(* come                                                                    *)
(***************************************************************************)
Return(c) ==
  /\ pc[c] = "END"
  /\ pc' = [pc EXCEPT ![c] = "idle"]
  /\ user_question' = [user_question EXCEPT ![c] = ""]
  /\ hypothetical_answer' = [hypothetical_answer EXCEPT ![c] = ""]
  /\ initial_docs' = [initial_docs EXCEPT ![c] = << >>]
  /\ reranked' = [reranked EXCEPT ![c] = NotReranked]
  /\ relevant_docs' = [relevant_docs EXCEPT ![c] = << >>]
  /\ final_prompt' = [final_prompt EXCEPT ![c] = << >>]
  /\ result' = [result EXCEPT ![c] = ""]
  /\ raised' = [raised EXCEPT ![c] = FALSE]
  /\ log' = [log EXCEPT ![c] = << >>]
  /\ UNCHANGED << batch, app, services, self >>

(***************************************************************************)
(* One message at a time: the interface serves call 1                      *)
(***************************************************************************)
Next ==
  \/ Ask(1)
  \/ Expand(1)
  \/ Retrieve(1)
  \/ Rerank(1)
  \/ Assemble(1)
  \/ Generate(1)
  \/ Return(1)

Spec == Init /\ [][Next]_vars

\* answer_question is synchronous: once called, each of its steps is taken;
\* nothing obliges the user to send a message
QuerySteps ==
  Expand(1) \/ Retrieve(1) \/ Rerank(1) \/ Assemble(1) \/ Generate(1)

\* the same interface over services with one answer of each kind
FewInit == Serving("few")

FairSpec == FewInit /\ [][Next]_vars /\ WF_vars(QuerySteps)

(***************************************************************************)
(* create_chatbot_interface from its first line: QueryMaster() is          *)
(* constructed, then the interface is launched                             *)
(***************************************************************************)
\* the fields as __init__ first sets them (None, None, None, None, "")
Unloaded ==
  [text_model |-> "None",
   embedding_model_name |-> "None",
   collection |-> << >>,
   graph |-> [nodes |-> << >>, adj |-> << >>],
   rag_prompt_template |-> << >>]

NotStarted == [stage |-> "start", loaded |-> {}, failed |-> ""]

\* the stage that follows the k-th load
StageAfter(k) ==
  IF k = Len(Resources) THEN "constructed"
  ELSE CASE Resources[k + 1] = "vector_store" -> "load_vector_store"
         [] Resources[k + 1] = "knowledge_graph" -> "load_knowledge_graph"
         [] Resources[k + 1] = "prompt_template" -> "load_prompt_template"

\* a loader whose handler logs the failure of the graph file and goes on
LoadFailureSwallowed(resource) == resource # "knowledge_graph"

\* the bare "raise" that ends the except block of each loader
LoadFailurePropagates(resource) == TRUE

\* the k-th load of __init__: on success the fields are set and the next
\* load follows; a failure that propagates leaves __init__ and
\* create_chatbot_interface, which prints the error and returns
Load(k, ok, loaded_self) ==
  IF ok
  THEN /\ self' = loaded_self
       /\ app' = [app EXCEPT !.stage = StageAfter(k),
                             !.loaded = @ \cup {Resources[k]}]
  ELSE IF LoadFailurePropagates(Resources[k])
  THEN /\ self' = self
       /\ app' = [app EXCEPT !.stage = "aborted", !.failed = Resources[k]]
  ELSE /\ self' = self
       /\ app' = [app EXCEPT !.stage = StageAfter(k), !.failed = Resources[k]]

Construct ==
  /\ app.stage = "start"
  /\ self' = Unloaded
  /\ app' = [app EXCEPT !.stage = "load_models"]
  /\ UNCHANGED << batch, services, pc, user_question, hypothetical_answer,
                  initial_docs, reranked, relevant_docs, final_prompt,
                  result, raised, log >>

LoadModels ==
  /\ app.stage = "load_models"
  /\ \E ok \in BOOLEAN :
       Load(1, ok, [self EXCEPT
                      !.text_model = "gemini-1.5-flash",
                      !.embedding_model_name = "models/text-embedding-004"])
  /\ UNCHANGED << batch, services, pc, user_question, hypothetical_answer,
                  initial_docs, reranked, relevant_docs, final_prompt,
                  result, raised, log >>

LoadVectorStore ==
  /\ app.stage = "load_vector_store"
  /\ \E ok \in BOOLEAN :
       Load(2, ok, [self EXCEPT !.collection = IndexedChunks])
  /\ UNCHANGED << batch, services, pc, user_question, hypothetical_answer,
                  initial_docs, reranked, relevant_docs, final_prompt,
                  result, raised, log >>

LoadKnowledgeGraph ==
  /\ app.stage = "load_knowledge_graph"
  /\ \E ok \in BOOLEAN, g \in Graphs :
       Load(3, ok, [self EXCEPT !.graph = g])
  /\ UNCHANGED << batch, services, pc, user_question, hypothetical_answer,
                  initial_docs, reranked, relevant_docs, final_prompt,
                  result, raised, log >>

LoadPromptTemplate ==
  /\ app.stage = "load_prompt_template"
  /\ \E ok \in BOOLEAN :
       Load(4, ok, [self EXCEPT !.rag_prompt_template = RagPromptTemplate])
  /\ UNCHANGED << batch, services, pc, user_question, hypothetical_answer,
                  initial_docs, reranked, relevant_docs, final_prompt,
                  result, raised, log >>

\* QueryMaster() returned: chat_response is defined over the instance and
\* the interface is launched
Launch ==
  /\ app.stage = "constructed"
  /\ app' = [app EXCEPT !.stage = "launched"]
  /\ UNCHANGED << batch, services, self, pc, user_question, hypothetical_answer,
                  initial_docs, reranked, relevant_docs, final_prompt,
                  result, raised, log >>

\* the chat application has not been started
ChatNotStarted ==
  /\ app = NotStarted
  /\ services = "few"
  /\ self = Unloaded
  /\ pc = [c \in CallIds |-> "idle"]
  /\ user_question = [c \in CallIds |-> ""]
  /\ hypothetical_answer = [c \in CallIds |-> ""]
  /\ initial_docs = [c \in CallIds |-> << >>]
  /\ reranked = [c \in CallIds |-> NotReranked]
  /\ relevant_docs = [c \in CallIds |-> << >>]
  /\ final_prompt = [c \in CallIds |-> << >>]
  /\ result = [c \in CallIds |-> ""]
  /\ raised = [c \in CallIds |-> FALSE]
  /\ log = [c \in CallIds |-> << >>]

InitStartup == ChatNotStarted /\ BatchIdle

NextStartup ==
  \/ Construct
  \/ LoadModels
  \/ LoadVectorStore
  \/ LoadKnowledgeGraph
  \/ LoadPromptTemplate
  \/ Launch
  \/ Next

SpecStartup == InitStartup /\ [][NextStartup]_vars

(***************************************************************************)
(* The interface serves messages in worker threads: two calls of           *)
(* chat_response may be in progress, their steps interleaved               *)
(***************************************************************************)
NextConcurrent ==
  \E c \in CallIds :
    \/ Ask(c)
    \/ Expand(c)
    \/ Retrieve(c)
    \/ Rerank(c)
    \/ Assemble(c)
    \/ Generate(c)
    \/ Return(c)

PairInit == Serving("pair")

SpecConcurrent == PairInit /\ [][NextConcurrent]_vars

(***************************************************************************)
(* Reading the log of a call                                               *)
(***************************************************************************)
CallsOf(c, svc) == SelectSeq(log[c], LAMBDA e : e.svc = svc)

WasCalled(c, svc) == CallsOf(c, svc) # << >>

\* the outcome of the (first) call of svc made by call c
OutcomeOf(c, svc) == CallsOf(c, svc)[1].out

ExternalCalls(c) == SelectSeq(log[c], LAMBDA e : e.svc # "graph_lookup")

AllExternalCallsFailed(c) ==
  /\ ExternalCalls(c) # << >>
  /\ \A k \in 1..Len(ExternalCalls(c)) : ~ExternalCalls(c)[k].out.ok

RerankAnswered(c) ==
  WasCalled(c, "generate_rerank") /\ OutcomeOf(c, "generate_rerank").ok

RerankText(c) == OutcomeOf(c, "generate_rerank").text

(***************************************************************************)
(* Properties                                                              *)
(***************************************************************************)

EmptyRetrievalShortCircuit ==
  \A c \in CallIds :
    (pc[c] \notin {"idle", "EXPAND", "RETRIEVE"} /\ initial_docs[c] = << >>)
      => /\ pc[c] = "END"
         /\ result[c] = NOT_FOUND_MSG
         /\ ~WasCalled(c, "generate_rerank")
         /\ ~WasCalled(c, "graph_lookup")
         /\ ~WasCalled(c, "generate_final")

\* the index was queried and answered with zero hits
EmptyRetrievalReached ==
  /\ pc[1] = "END"
  /\ WasCalled(1, "query")
  /\ OutcomeOf(1, "query").ok
  /\ OutcomeOf(1, "query").text = << >>
  /\ result[1] = NOT_FOUND_MSG

\* C3 (as claimed): when every external call of a query fails, the string
\* returned is the apology string of the final generation step.
AllFailReturnsApology ==
  \A c \in CallIds :
    (pc[c] = "END" /\ AllExternalCallsFailed(c)) => result[c] = APOLOGY_MSG

\* C3 (amended): when every external call of a query fails, the query ends
\* after the failed embedding call, and the string returned is the fixed
\* "not found" message; no exception is raised.
AllFailReturnsNotFound ==
  \A c \in CallIds :
    (pc[c] = "END" /\ AllExternalCallsFailed(c))
      => /\ result[c] = NOT_FOUND_MSG
         /\ ~raised[c]
         /\ ~WasCalled(c, "query")

\* hypothetical-answer generation and embedding both failed
AllFailReached ==
  /\ pc[1] = "END"
  /\ AllExternalCallsFailed(1)
  /\ WasCalled(1, "generate_hyde")
  /\ WasCalled(1, "embed")

\* C4: every index that _rerank_documents used to select a document lies
\* in [0, candidate_count).
RerankIndicesInBounds ==
  \A c \in CallIds :
    \A k \in 1..Len(reranked[c].used) :
      /\ 0 <= reranked[c].used[k]
      /\ reranked[c].used[k] < Len(initial_docs[c])

NoDigit(text) == \A k \in 1..Len(text) : text[k] \notin Digits

\* C5: a re-rank response without any digit (the empty response included)
\* makes _rerank_documents return the first RERANK_TOP_N candidates, in
\* their order (all of them when there are fewer).
NoDigitsFallsBackToFirstN ==
  \A c \in CallIds :
    (RerankAnswered(c) /\ NoDigit(RerankText(c)))
      => /\ relevant_docs[c] = Take(initial_docs[c], RERANK_TOP_N)
         /\ ~raised[c]

\* an empty response over more than RERANK_TOP_N candidates
NoDigitsFallbackReached ==
  /\ pc[1] = "ASSEMBLE"
  /\ RerankAnswered(1)
  /\ RerankText(1) = << >>
  /\ Len(initial_docs[1]) > RERANK_TOP_N
  /\ Len(relevant_docs[1]) = RERANK_TOP_N

\* every maximal run of digits of the text, read as a 1-based index
RECURSIVE DigitRunsFrom(_, _, _)
DigitRunsFrom(text, run, acc) ==
  IF text = << >>
  THEN IF run = << >> THEN acc ELSE Append(acc, DecValue(run, 0) - 1)
  ELSE IF Head(text) \in Digits
  THEN DigitRunsFrom(Tail(text), Append(run, Head(text)), acc)
  ELSE DigitRunsFrom(Tail(text), << >>,
                     IF run = << >> THEN acc
                     ELSE Append(acc, DecValue(run, 0) - 1))

DigitRunIndices(text) == DigitRunsFrom(text, << >>, << >>)

NoteResponse ==
  <<"n", "o", "t", "e", ":", " ", "3", ",", " ", "1", ",", " ", "1", ",",
    " ", "9">>

PlainResponse == <<"3", ",", " ", "1", ",", " ", "1", ",", " ", "9">>

IsNumberPiece(piece) ==
  LET t == Strip(piece)
      body == IF t # << >> /\ Head(t) \in Signs THEN Tail(t) ELSE t
  IN  AllDigits(body)

IsNumberList(text) ==
  \A k \in 1..Len(Split(text)) : IsNumberPiece(Split(text)[k])

AllAboveRange(c) ==
  /\ reranked[c].parsed # << >>
  /\ \A k \in 1..Len(reranked[c].parsed) :
       reranked[c].parsed[k] >= Len(initial_docs[c])

NoneUsable(c) ==
  /\ reranked[c].parsed # << >>
  /\ \A k \in 1..Len(reranked[c].parsed) :
       \/ reranked[c].parsed[k] >= Len(initial_docs[c])
       \/ reranked[c].parsed[k] < 0

RerankNeverRaises ==
  \A c \in CallIds :
    /\ ~reranked[c].raised
    /\ pc[c] \in {"RERANK", "ASSEMBLE", "GENERATE"} => ~raised[c]
    /\ (reranked[c].called
          /\ TryRerank(initial_docs[c], OutcomeOf(c, "generate_rerank")).exc
               # "")
         => /\ reranked[c].fallback
            /\ relevant_docs[c] = Take(initial_docs[c], RERANK_TOP_N)
            /\ pc[c] \in {"ASSEMBLE", "GENERATE", "END"}
            /\ pc[c] = "END" => WasCalled(c, "generate_final")

\* a parsed index before the start of the list (IndexError) was absorbed
RerankIndexErrorReached ==
  /\ pc[1] = "ASSEMBLE"
  /\ RerankAnswered(1)
  /\ reranked[1].fallback
  /\ \E k \in 1..Len(reranked[1].parsed) :
       0 - reranked[1].parsed[k] > Len(initial_docs[1])

\* the text answer_question searches with, by the outcome of step 1
ExpectedSearchText(c) ==
  IF OutcomeOf(c, "generate_hyde").ok
  THEN OutcomeOf(c, "generate_hyde").text
  ELSE user_question[c]

\* C9: after step 1 the query is at the retrieval step or beyond it, and
\* the text passed to the vector search is the raw question when the
\* hypothetical-answer generation failed and the generated text otherwise.
HydeFallbackToQuestion ==
  \A c \in CallIds :
    pc[c] \notin {"idle", "EXPAND"} =>
      /\ WasCalled(c, "generate_hyde")
      /\ hypothetical_answer[c] = ExpectedSearchText(c)
      /\ pc[c] # "RETRIEVE" =>
           /\ WasCalled(c, "embed")
           /\ CallsOf(c, "embed")[1].arg = ExpectedSearchText(c)

\* a failed expansion followed by a search with the question itself
HydeFallbackReached ==
  /\ pc[1] = "RERANK"
  /\ ~OutcomeOf(1, "generate_hyde").ok
  /\ CallsOf(1, "embed")[1].arg = user_question[1]
  /\ OutcomeOf(1, "query").ok

\* C10: once the final generation call was made the query has ended, and
\* the string returned is the text of the service when the call succeeded
\* and the apology string when it failed.
FinalGenerationResult ==
  \A c \in CallIds :
    WasCalled(c, "generate_final") =>
      /\ pc[c] = "END"
      /\ ~raised[c]
      /\ Len(CallsOf(c, "generate_final")) = 1
      /\ result[c] = IF OutcomeOf(c, "generate_final").ok
                     THEN OutcomeOf(c, "generate_final").text
                     ELSE APOLOGY_MSG

\* a final generation that succeeded
FinalGenerationReached ==
  /\ pc[1] = "END"
  /\ WasCalled(1, "generate_final")
  /\ OutcomeOf(1, "generate_final").ok
  /\ result[1] = OutcomeOf(1, "generate_final").text


\* position of a stage in the pipeline
StageRank(stage) ==
  CASE stage = "EXPAND" -> 1 [] stage = "RETRIEVE" -> 2
    [] stage = "RERANK" -> 3 [] stage = "ASSEMBLE" -> 4
    [] stage = "GENERATE" -> 5 [] stage = "END" -> 6 [] OTHER -> 0

EmptySelectionExit(c) ==
  /\ initial_docs[c] # << >>
  /\ WasCalled(c, "generate_rerank")
  /\ relevant_docs[c] = << >>
  /\ ~raised[c]
  /\ result[c] = NO_PRECISE_MSG

SlotValue(prompt, slot) ==
  prompt[CHOOSE j \in 1..Len(prompt) : prompt[j].slot = slot].value

HasSlot(prompt, slot) == \E j \in 1..Len(prompt) : prompt[j].slot = slot

\* C13: the prompt of every final generation call has the three
\* placeholders filled: a vector context of at least one document, a graph
\* context that is either the placeholder string or at least one topic line,
\* and the question of the call, none of them empty.
PromptSlotsFilled ==
  \A c \in CallIds :
    \A k \in 1..Len(CallsOf(c, "generate_final")) :
      LET prompt == CallsOf(c, "generate_final")[k].arg
      IN  /\ \A slot \in {"vector_context", "graph_context", "user_question"} :
               HasSlot(prompt, slot)
          /\ SlotValue(prompt, "vector_context") # << >>
          /\ LET graph_context == SlotValue(prompt, "graph_context")
             IN  \/ graph_context = NO_GRAPH_CONTEXT
                 \/ graph_context.text = "" /\ graph_context.lines # << >>
          /\ SlotValue(prompt, "user_question") = user_question[c]
          /\ SlotValue(prompt, "user_question") # ""

PlaceholderPromptReached ==
  /\ pc[1] = "END"
  /\ WasCalled(1, "generate_final")
  /\ SlotValue(CallsOf(1, "generate_final")[1].arg, "graph_context")
       = NO_GRAPH_CONTEXT

(***************************************************************************)
(* The graph-context summary                                               *)
(***************************************************************************)
\* the graph lookups a call has made: each holds the documents it scanned
\* and the context it returned
GraphLookups(c) == CallsOf(c, "graph_lookup")

\* the node labels that occur, lower-cased, in the lower-cased text of one
\* of the documents
Matched(G, docs) ==
  {node \in Range(G.nodes) :
     \E k \in 1..Len(docs) : IsSubstr(Lower(node), Lower(docs[k].text))}

TopicsOf(context) == {context.lines[j].topic : j \in 1..Len(context.lines)}

\* C14: when some node matched, the summary has exactly one line per matched
\* node, and the line of a matched node without edges reports "None"; over
\* the graph of two nodes without an edge and a selection that names both,
\* the summary has two lines and each reports "None".
OneLinePerMatchedNode ==
  \A c \in CallIds :
    \A k \in 1..Len(GraphLookups(c)) :
      LET docs == GraphLookups(c)[k].arg
          context == GraphLookups(c)[k].out.text
          matched == Matched(self.graph, docs)
      IN  /\ matched # {} =>
               /\ Len(context.lines) = Cardinality(matched)
               /\ TopicsOf(context) = matched
               /\ \A j \in 1..Len(context.lines) :
                    LET line == context.lines[j]
                    IN  /\ line.related # << >>
                        /\ self.graph.adj[line.topic] = << >> =>
                             line.related = << NONE_TEXT >>
                        /\ self.graph.adj[line.topic] # << >> =>
                             NONE_TEXT \notin Range(line.related)
          /\ (self.graph = GraphIsolated /\ Cardinality(matched) = 2) =>
               /\ Len(context.lines) = 2
               /\ \A j \in 1..2 : context.lines[j].related = << NONE_TEXT >>

TwoIsolatedNodesReached ==
  /\ self.graph = GraphIsolated
  /\ WasCalled(1, "graph_lookup")
  /\ Matched(self.graph, GraphLookups(1)[1].arg) = {<<"a">>, <<"B">>}
  /\ Len(GraphLookups(1)[1].out.text.lines) = 2

\* C15: when no node label occurs in any selected document, the lookup
\* returns the fixed placeholder and no topic line (no traversal was made),
\* and the prompt built from it carries the placeholder in its graph
\* section.
NoMatchGivesPlaceholder ==
  \A c \in CallIds :
    /\ \A k \in 1..Len(GraphLookups(c)) :
         Matched(self.graph, GraphLookups(c)[k].arg) = {} =>
           LET context == GraphLookups(c)[k].out.text
           IN  /\ context.text = NO_GRAPH_CONTEXT_TEXT
               /\ context.text # ""
               /\ context.lines = << >>
    /\ (final_prompt[c] # << >>
          /\ Matched(self.graph, relevant_docs[c]) = {}) =>
         /\ HasSlot(final_prompt[c], "graph_context")
         /\ SlotValue(final_prompt[c], "graph_context").text
              = NO_GRAPH_CONTEXT_TEXT

NoMatchReached ==
  /\ pc[1] = "GENERATE"
  /\ WasCalled(1, "graph_lookup")
  /\ Matched(self.graph, relevant_docs[1]) = {}
  /\ OutcomeOf(1, "graph_lookup").text = NO_GRAPH_CONTEXT

(***************************************************************************)
(* The size of the selection                                               *)
(***************************************************************************)
\* C19: the list returned by _rerank_documents, and so the selection the
\* context is assembled from, has at most RERANK_TOP_N documents.
RerankNarrowsToTopN ==
  \A c \in CallIds :
    /\ Len(reranked[c].docs) <= RERANK_TOP_N
    /\ Len(relevant_docs[c]) <= RERANK_TOP_N

(***************************************************************************)
(* Failures at construction                                                *)
(***************************************************************************)
FullyInitialised ==
  /\ app.loaded = Range(Resources)
  /\ app.failed = ""
  /\ \E g \in Graphs : self = Constructed(g)

\* C16: a load that failed ends create_chatbot_interface (no instance, no
\* launch, and nothing happens afterwards); the constructor returns an
\* instance, and the interface is launched, only after all four resources
\* were loaded; and a call of answer_question is in progress only on a
\* launched interface over a fully initialised instance.
LoadFailureStopsStartup ==
  /\ [](app.failed # "" => app.stage = "aborted")
  /\ [](app.stage \in {"constructed", "launched"} => FullyInitialised)
  /\ [](\A c \in CallIds :
          pc[c] # "idle" => (app.stage = "launched" /\ FullyInitialised))
  /\ [][app.stage = "aborted" => UNCHANGED vars]_vars

GraphLoadFailureReached ==
  /\ app.stage = "aborted"
  /\ app.failed = "knowledge_graph"
  /\ app.loaded = {"models", "vector_store"}
  /\ self.graph = Unloaded.graph
  /\ \A c \in CallIds : pc[c] = "idle"

(***************************************************************************)
(* The frame of answer_question                                            *)
(***************************************************************************)
\* C17: no step of answer_question, whatever its outcome, changes a field
\* of the orchestrator: the model handles, the collection and its chunks,
\* the graph and the prompt template are after the step what they were
\* before it.
OrchestratorUnchanged ==
  [][/\ self'.text_model = self.text_model
     /\ self'.embedding_model_name = self.embedding_model_name
     /\ self'.collection = self.collection
     /\ self'.graph = self.graph
     /\ self'.rag_prompt_template = self.rag_prompt_template]_vars

AnsweredOverSameFields ==
  /\ pc[1] = "END"
  /\ WasCalled(1, "graph_lookup")
  /\ WasCalled(1, "generate_final")
  /\ self = Constructed(GraphPath)

(***************************************************************************)
(* Interleaved calls                                                       *)
(***************************************************************************)
\* the values of call c
LocalsOf(c) ==
  << user_question[c], hypothetical_answer[c], initial_docs[c], reranked[c],
     relevant_docs[c], final_prompt[c], result[c], raised[c], log[c] >>

\* the documents the search of call c returned, from the outcomes of its
\* own external calls
SearchedAlone(c) ==
  IF WasCalled(c, "query")
  THEN SearchVectorStore(OutcomeOf(c, "embed"), OutcomeOf(c, "query"))
  ELSE << >>

\* the values call c computes from its own question and the outcomes of
\* its own external calls
ComputedAlone(c) ==
  /\ WasCalled(c, "generate_hyde") =>
       /\ CallsOf(c, "generate_hyde")[1].arg = user_question[c]
       /\ hypothetical_answer[c] =
            GenerateHypotheticalAnswer(user_question[c],
                                       OutcomeOf(c, "generate_hyde"))
  /\ WasCalled(c, "embed") =>
       /\ CallsOf(c, "embed")[1].arg = hypothetical_answer[c]
       /\ initial_docs[c] = SearchedAlone(c)
  /\ WasCalled(c, "generate_rerank") =>
       /\ CallsOf(c, "generate_rerank")[1].arg =
            [docs |-> initial_docs[c], query |-> user_question[c]]
       /\ reranked[c] =
            RerankDocuments(initial_docs[c], user_question[c],
                            OutcomeOf(c, "generate_rerank"))
       /\ relevant_docs[c] = reranked[c].docs
  /\ WasCalled(c, "graph_lookup") =>
       /\ CallsOf(c, "graph_lookup")[1].arg = relevant_docs[c]
       /\ final_prompt[c] =
            Format(self.rag_prompt_template,
                   [vector_context |-> VectorContext(relevant_docs[c]).val,
                    graph_context |-> OutcomeOf(c, "graph_lookup").text,
                    user_question |-> user_question[c]]).val
  /\ WasCalled(c, "generate_final") =>
       /\ CallsOf(c, "generate_final")[1].arg = final_prompt[c]
       /\ result[c] = FinalAnswer(OutcomeOf(c, "generate_final"))
  /\ (pc[c] = "END" /\ ~WasCalled(c, "generate_final")) =>
       result[c] = IF SearchedAlone(c) = << >> THEN NOT_FOUND_MSG
                   ELSE NO_PRECISE_MSG

\* C18: with the steps of two calls interleaved in any order, every value of
\* a call is the one computed from its own question and the outcomes of its
\* own external calls, and a step of one call leaves the values of the other
\* call as they were.
CallsAreIsolated ==
  /\ [](\A c \in CallIds : pc[c] # "idle" => ComputedAlone(c))
  /\ [][\A c \in CallIds : pc'[c] = pc[c] => LocalsOf(c)' = LocalsOf(c)]_vars

InterleavedCallsReached ==
  /\ pc[1] = "END" /\ pc[2] = "GENERATE"
  /\ user_question[1] # user_question[2]
  /\ hypothetical_answer[1] # hypothetical_answer[2]
  /\ WasCalled(1, "generate_final")
  /\ result[1] = APOLOGY_MSG
  /\ final_prompt[1] # final_prompt[2]

(***************************************************************************)
(* Repeated graph lookups                                                  *)
(***************************************************************************)
\* the related nodes a topic line reports
RelatedOf(line) ==
  IF line.related = << NONE_TEXT >> THEN << >> ELSE line.related

NamesCandidatesOnly(c) ==
  /\ RerankAnswered(c)
  /\ IsNumberList(RerankText(c))
  /\ \A k \in 1..Len(RerankText(c)) : RerankText(c)[k] \notin Signs
  /\ \A k \in 1..Len(DigitRunIndices(RerankText(c))) :
       DigitRunIndices(RerankText(c))[k] \in 0..(Len(initial_docs[c]) - 1)

\* C21: every document _rerank_documents returns is one of the candidates,
\* text and metadata as retrieved, and when the response is a list of
\* in-range numbers the returned documents are the candidates at those
\* positions, in the order of the response.
SelectionIsFromCandidates ==
  \A c \in CallIds :
    reranked[c].called =>
      /\ relevant_docs[c] = reranked[c].docs
      /\ \A k \in 1..Len(relevant_docs[c]) :
           \E j \in 1..Len(initial_docs[c]) :
             /\ relevant_docs[c][k].text = initial_docs[c][j].text
             /\ relevant_docs[c][k].metadata = initial_docs[c][j].metadata
      /\ NamesCandidatesOnly(c) =>
           LET numbers == DigitRunIndices(RerankText(c))
           IN  relevant_docs[c] =
                 [k \in 1..Len(numbers) |-> initial_docs[c][numbers[k] + 1]]

ResponseOrderReached ==
  /\ RerankAnswered(1)
  /\ RerankText(1) = <<"3", ",", "1", ",", "2">>
  /\ Len(initial_docs[1]) = 3
  /\ relevant_docs[1] =
       << initial_docs[1][3], initial_docs[1][1], initial_docs[1][2] >>

\* the documents of the vector context of a prompt
ContextDocs(prompt) == SlotValue(prompt, "vector_context")

\* C22: no document appears twice in the vector context of an assembled
\* prompt, whatever the re-rank response repeated.
ContextHasNoDuplicates ==
  \A c \in CallIds :
    final_prompt[c] # << >> =>
      \A j, k \in 1..Len(ContextDocs(final_prompt[c])) :
        j # k => ContextDocs(final_prompt[c])[j]
                   # ContextDocs(final_prompt[c])[k]

(***************************************************************************)
(* The related concepts of a matched node                                  *)
(***************************************************************************)
\* the nodes reached from the set S over at most d edges
RECURSIVE Within(_, _, _)
Within(G, S, d) ==
  IF d = 0 THEN S
  ELSE Within(G, S \cup UNION {Range(G.adj[n]) : n \in S}, d - 1)

\* the nodes at distance 1..d of node
NodesWithin(G, node, d) == Within(G, {node}, d) \ {node}

\* C23: the related concepts on the line of a matched node are exactly the
\* nodes at distance 1 to GRAPH_SEARCH_DEPTH from it, each listed once, the
\* matched node itself never among them.
RelatedAreWithinDepth ==
  \A c \in CallIds :
    \A k \in 1..Len(GraphLookups(c)) :
      LET lines == GraphLookups(c)[k].out.text.lines
      IN  \A j \in 1..Len(lines) :
            LET related == RelatedOf(lines[j])
            IN  /\ Range(related) =
                     NodesWithin(self.graph, lines[j].topic,
                                 GRAPH_SEARCH_DEPTH)
                /\ Cardinality(Range(related)) = Len(related)
                /\ lines[j].topic \notin Range(related)

\* over the cycle, c is related to a and to B, each line lists it once
SharedConceptReached ==
  /\ self.graph = GraphCycle
  /\ WasCalled(1, "graph_lookup")
  /\ LET lines == OutcomeOf(1, "graph_lookup").text.lines
     IN  \E i, j \in 1..Len(lines) :
           /\ lines[i] = [topic |-> <<"a">>,
                          related |-> << <<"B">>, <<"c">>, <<"q">> >>]
           /\ lines[j].topic = <<"B">>
           /\ <<"c">> \in Range(lines[j].related)
           /\ <<"q">> \in Range(lines[j].related)

(***************************************************************************)
(* Which documents the graph lookup scans                                  *)
(***************************************************************************)
\* C24: the topics of a graph lookup are the nodes whose lower-cased label
\* occurs in the lower-cased text of a document selected by re-ranking: the
\* lookup scans the selection, not the candidates, and reports each such
\* node on one line however many selected documents contain it.
MatchedFromSelectionOnly ==
  \A c \in CallIds :
    \A k \in 1..Len(GraphLookups(c)) :
      LET context == GraphLookups(c)[k].out.text
      IN  /\ GraphLookups(c)[k].arg = relevant_docs[c]
          /\ TopicsOf(context) = Matched(self.graph, relevant_docs[c])
          /\ Len(context.lines) = Cardinality(TopicsOf(context))
          /\ \A node \in Range(self.graph.nodes) :
               node \in TopicsOf(context) <=>
                 \E d \in 1..Len(relevant_docs[c]) :
                   IsSubstr(Lower(node), Lower(relevant_docs[c][d].text))

\* every selected document contains "a" or "A", one of them "b": a and B are
\* topics; c occurs in a candidate that was not selected and is no topic
UnselectedCandidateReached ==
  /\ self.graph = GraphPath
  /\ WasCalled(1, "graph_lookup")
  /\ Len(relevant_docs[1]) >= 2
  /\ <<"c">> \in Matched(self.graph, initial_docs[1])
  /\ TopicsOf(OutcomeOf(1, "graph_lookup").text) = {<<"a">>, <<"B">>}
  /\ \A d \in 1..Len(relevant_docs[1]) :
       IsSubstr(<<"a">>, Lower(relevant_docs[1][d].text))

(***************************************************************************)
(* Where the hypothetical answer goes                                      *)
(***************************************************************************)
\* C25: the hypothetical answer is the text that is embedded for the vector
\* search; the question of the re-rank prompt and the question of the final
\* prompt are the user's question, whether the hypothetical answer was
\* generated or the question stood in for it.
QuestionStaysOriginal ==
  \A c \in CallIds :
    /\ \A k \in 1..Len(CallsOf(c, "embed")) :
         CallsOf(c, "embed")[k].arg = hypothetical_answer[c]
    /\ \A k \in 1..Len(CallsOf(c, "generate_rerank")) :
         CallsOf(c, "generate_rerank")[k].arg.query = user_question[c]
    /\ \A k \in 1..Len(CallsOf(c, "generate_final")) :
         SlotValue(CallsOf(c, "generate_final")[k].arg, "user_question")
           = user_question[c]
    /\ final_prompt[c] # << >> =>
         SlotValue(final_prompt[c], "user_question") = user_question[c]

ExpandedQueryAnsweredReached ==
  /\ pc[1] = "END"
  /\ OutcomeOf(1, "generate_hyde").ok
  /\ hypothetical_answer[1] # user_question[1]
  /\ WasCalled(1, "generate_rerank")
  /\ WasCalled(1, "generate_final")
  /\ CallsOf(1, "embed")[1].arg = OutcomeOf(1, "generate_hyde").text

(***************************************************************************)
(* The external calls of one query                                         *)
(***************************************************************************)
GenerationCalls(c) ==
  SelectSeq(log[c], LAMBDA e : e.svc \in {"generate_hyde", "generate_rerank",
                                         "generate_final"})

\* C26: a query calls the generation service at most once for each of the
\* expansion, the re-ranking and the final answer (three calls at most), the
\* embedding service at most once and the index at most once, failed calls
\* included.
NoCallIsRetried ==
  \A c \in CallIds :
    /\ Len(CallsOf(c, "generate_hyde")) <= 1
    /\ Len(CallsOf(c, "generate_rerank")) <= 1
    /\ Len(CallsOf(c, "generate_final")) <= 1
    /\ Len(GenerationCalls(c)) <= 3
    /\ Len(CallsOf(c, "embed")) <= 1
    /\ Len(CallsOf(c, "query")) <= 1

ThreeFailedGenerationsReached ==
  /\ pc[1] = "END"
  /\ Len(GenerationCalls(1)) = 3
  /\ \A k \in 1..3 : ~GenerationCalls(1)[k].out.ok
  /\ Len(CallsOf(1, "embed")) = 1
  /\ Len(CallsOf(1, "query")) = 1

(***************************************************************************)
(* A failed vector search                                                  *)
(***************************************************************************)
SearchFailed(c) ==
  \/ WasCalled(c, "embed") /\ ~OutcomeOf(c, "embed").ok
  \/ WasCalled(c, "query") /\ ~OutcomeOf(c, "query").ok

IndexHadNoMatch(c) ==
  /\ WasCalled(c, "query")
  /\ OutcomeOf(c, "query").ok
  /\ OutcomeOf(c, "query").text = << >>

\* what a query shows after a search without a match
EndedNotFound(c) ==
  /\ pc[c] = "END"
  /\ initial_docs[c] = << >>
  /\ result[c] = NOT_FOUND_MSG
  /\ ~raised[c]
  /\ relevant_docs[c] = << >>
  /\ final_prompt[c] = << >>
  /\ ~WasCalled(c, "generate_rerank")
  /\ ~WasCalled(c, "graph_lookup")
  /\ ~WasCalled(c, "generate_final")

\* C27: when the embedding call or the index query of a query failed, the
\* query has ended as it ends when the index has no match: with an empty
\* candidate list, the "not found" message, no exception and no re-ranking,
\* graph lookup or final generation; a failed embedding also leaves the
\* index unqueried.
SearchFailureEndsNotFound ==
  \A c \in CallIds :
    /\ SearchFailed(c) => EndedNotFound(c)
    /\ IndexHadNoMatch(c) => EndedNotFound(c)
    /\ (WasCalled(c, "embed") /\ ~OutcomeOf(c, "embed").ok) =>
         ~WasCalled(c, "query")

IndexQueryFailedReached ==
  /\ pc[1] = "END"
  /\ OutcomeOf(1, "embed").ok
  /\ WasCalled(1, "query")
  /\ ~OutcomeOf(1, "query").ok
  /\ result[1] = NOT_FOUND_MSG

(***************************************************************************)
(* The graph builders: build_knowledge_graph of knowledge_weaver and       *)
(* build_graph_from_chunks of 03_graph_builder                             *)
(***************************************************************************)
\* the longest list of chunks a builder is given
MaxChunks == 2

Entity(id, type) == [id |-> id, type |-> type]

Relationship(source, target) ==
  [source |-> source, target |-> target, type |-> "related"]

\* outputs of the text analyzer for a chunk: relationships between the
\* entities of the chunk, to an entity of no chunk, to an entity of another
\* chunk, with an empty id; a chunk without the 'relationships' key; an
\* empty dictionary
StructuredChunks ==
  { [entities |-> << Entity("m", "org"), Entity("s", "org") >>,
     relationships |-> << Relationship("m", "s") >>],
    [entities |-> << Entity("m", "org") >>,
     relationships |-> << Relationship("m", "h") >>],
    [entities |-> << Entity("h", "org") >>,
     relationships |-> << Relationship("h", "m"), Relationship("s", "h") >>],
    [entities |-> << Entity("", "org"), Entity("s", "law") >>,
     relationships |-> << Relationship("", "s"), Relationship("s", "s") >>],
    [entities |-> << Entity("h", "org") >>],
    << >> }

\* chunks with the entity list 03_graph_builder.main attached to them, and
\* a chunk without the key
EntityChunks ==
  { [text |-> "t1", entities |-> << >>],
    [text |-> "t2", entities |-> << "m" >>],
    [text |-> "t3", entities |-> << "s", "m" >>],
    [text |-> "t4", entities |-> << "s", "h", "m" >>],
    [text |-> "t5", entities |-> << "m", "m" >>],
    [text |-> "t6"] }

\* every list of at most n elements of S
RECURSIVE ListsUpTo(_, _)
ListsUpTo(S, n) ==
  IF n = 0 THEN {<< >>}
  ELSE LET shorter == ListsUpTo(S, n - 1)
       IN  shorter \cup {Append(l, x) : l \in shorter, x \in S}

\* the order of str on the labels of the model
LabelRank(label) ==
  CASE label = "" -> 0 [] label = "h" -> 1 [] label = "m" -> 2
    [] label = "s" -> 3 [] OTHER -> 4

RECURSIVE InsertSorted(_, _)
InsertSorted(sorted, label) ==
  IF sorted = << >> THEN << label >>
  ELSE IF LabelRank(label) < LabelRank(Head(sorted))
  THEN << label >> \o sorted
  ELSE << Head(sorted) >> \o InsertSorted(Tail(sorted), label)

\* sorted(entities)
RECURSIVE Sorted(_)
Sorted(labels) ==
  IF labels = << >> THEN << >>
  ELSE InsertSorted(Sorted(Tail(labels)), Head(labels))

\* itertools.combinations(items, 2)
Combinations2(items) ==
  {<< items[q[1]], items[q[2]] >> :
     q \in {r \in (1..Len(items)) \X (1..Len(items)) : r[1] < r[2]}}

\* an edge added whatever its endpoints are
BothAreNodesUnchecked(nodes, source_id, target_id) == TRUE

\* "G.has_node(source_id) and G.has_node(target_id)"
BothAreNodes(nodes, source_id, target_id) ==
  source_id \in nodes /\ target_id \in nodes

\* the body of the loop of build_knowledge_graph for one data_chunk; an
\* edge of the undirected nx.Graph is the set of its endpoints
AddStructuredChunk(G, data_chunk) ==
  IF \/ DOMAIN data_chunk = {}
     \/ "entities" \notin DOMAIN data_chunk
     \/ "relationships" \notin DOMAIN data_chunk
  THEN G
  ELSE LET entities == data_chunk.entities
           rels == data_chunk.relationships
           nodes == G.nodes \cup
                    {entities[k].id : k \in {j \in 1..Len(entities) :
                                              entities[j].id # ""}}
           added == {k \in 1..Len(rels) :
                       /\ rels[k].source # ""
                       /\ rels[k].target # ""
                       /\ BothAreNodes(nodes, rels[k].source,
                                       rels[k].target)}
       IN  [nodes |-> nodes,
            edges |-> G.edges \cup
                      {{rels[k].source, rels[k].target} : k \in added}]

\* "if len(entities) > 1"
ManyEntities(entities) == Len(entities) > 1

\* the body of the loop of build_graph_from_chunks for one chunk; an edge
\* is the pair itertools.combinations yields
AddEntityChunk(G, chunk) ==
  LET entities == IF "entities" \in DOMAIN chunk THEN chunk.entities
                  ELSE << >>
  IN  IF ManyEntities(entities)
      THEN [nodes |-> G.nodes \cup Range(entities),
            edges |-> G.edges \cup Combinations2(Sorted(entities))]
      ELSE G

\* one iteration of "for data_chunk in structured_data"
BuildKnowledgeGraph ==
  /\ weaver.builder = "build_knowledge_graph"
  /\ weaver.fed < Len(weaver.input)
  /\ LET G == AddStructuredChunk([nodes |-> weaver.nodes,
                                  edges |-> weaver.edges],
                                 weaver.input[weaver.fed + 1])
     IN  weaver' = [weaver EXCEPT !.fed = @ + 1, !.nodes = G.nodes,
                                  !.edges = G.edges]
  /\ UNCHANGED << chat, extraction, enhancer >>

\* one iteration of "for chunk in chunks_with_entities"
BuildGraphFromChunks ==
  /\ weaver.builder = "build_graph_from_chunks"
  /\ weaver.fed < Len(weaver.input)
  /\ LET G == AddEntityChunk([nodes |-> weaver.nodes,
                              edges |-> weaver.edges],
                             weaver.input[weaver.fed + 1])
     IN  weaver' = [weaver EXCEPT !.fed = @ + 1, !.nodes = G.nodes,
                                  !.edges = G.edges]
  /\ UNCHANGED << chat, extraction, enhancer >>

\* a builder is called with a list of chunks: G = nx.Graph(), or the two
\* empty sets
InitWeaver ==
  /\ ChatNotStarted
  /\ extraction = ExtractionIdle
  /\ enhancer = EnhancerIdle
  /\ \/ \E input \in ListsUpTo(StructuredChunks, MaxChunks) :
          weaver = [WeaverIdle EXCEPT !.builder = "build_knowledge_graph",
                                      !.input = input]
     \/ \E input \in ListsUpTo(EntityChunks, MaxChunks) :
          weaver = [WeaverIdle EXCEPT !.builder = "build_graph_from_chunks",
                                      !.input = input]

NextWeaver == BuildKnowledgeGraph \/ BuildGraphFromChunks

SpecWeaver == InitWeaver /\ [][NextWeaver]_vars

\* C28: at every point of a run of either builder, both endpoints of every
\* edge of the graph are nodes of the graph.
EdgesJoinNodes ==
  \A edge \in weaver.edges :
    IF weaver.builder = "build_graph_from_chunks"
    THEN edge[1] \in weaver.nodes /\ edge[2] \in weaver.nodes
    ELSE edge \subseteq weaver.nodes

\* build_knowledge_graph has dropped the relationship of the first chunk to
\* an entity that only the second chunk brings, and added the edge of the
\* second chunk between the two
EdgeDroppedAndAddedReached ==
  /\ weaver.builder = "build_knowledge_graph"
  /\ weaver.fed = 2
  /\ weaver.nodes = {"m", "h"}
  /\ weaver.edges = {{"h", "m"}}
  /\ \E k \in 1..Len(weaver.input[1].relationships) :
       weaver.input[1].relationships[k].target = "h"

(***************************************************************************)
(* 03_graph_builder.main: entity extraction with a checkpoint file         *)
(***************************************************************************)
\* the chunks of knowledge_chunks.pkl
NumChunks == 3

\* the times a run is interrupted
MaxCrashes == 2

InputChunks == [k \in 1..NumChunks |-> [text |-> << "chunk", k >>]]

\* what extract_entities_from_chunk returns: nothing found (or three failed
\* attempts), or the sorted entities
ExtractedEntities == { << >>, << "m", "s" >> }

OkFile(data) == [state |-> "ok", data |-> data]

\* a file opened with 'wb' and not yet written and closed: pickle.load of
\* what is there raises
TruncatedFile == [state |-> "truncated", data |-> << >>]

\* load_knowledge_chunks: the list, or [] when the file cannot be loaded
LoadKnowledgeChunks(file) == IF file.state = "ok" THEN file.data ELSE << >>

\* open(file_path, 'wb'): the file exists and is empty
OpenedForWriting(file) == TruncatedFile

TextsOf(chunks) == {chunks[k].text : k \in 1..Len(chunks)}

\* build_graph_from_chunks over the whole list
RECURSIVE GraphFromChunks(_, _)
GraphFromChunks(G, chunks) ==
  IF chunks = << >> THEN G
  ELSE GraphFromChunks(AddEntityChunk(G, Head(chunks)), Tail(chunks))

\* main up to the loop: the chunks and the checkpoint are loaded
StartGraphBuilder ==
  /\ extraction.pc = "off"
  /\ LET knowledge_chunks == LoadKnowledgeChunks(extraction.input_file)
         resumed == IF extraction.checkpoint_file.state # "absent"
                    THEN LoadKnowledgeChunks(extraction.checkpoint_file)
                    ELSE << >>
         start_index == Len(resumed)
     IN  IF knowledge_chunks = << >>
         THEN extraction' = [extraction EXCEPT !.pc = "returned"]
         ELSE extraction' =
                [extraction EXCEPT
                   !.knowledge_chunks = knowledge_chunks,
                   !.chunks_with_entities = resumed,
                   !.i = start_index,
                   !.pc = IF start_index < Len(knowledge_chunks)
                          THEN "extract" ELSE "open_chunks"]
  /\ UNCHANGED << chat, weaver, enhancer >>

\* lines 141-147: chunk i is sent for extraction and appended
ExtractEntities ==
  /\ extraction.pc = "extract"
  /\ \E entities \in ExtractedEntities :
       LET text == extraction.knowledge_chunks[extraction.i + 1].text
           chunk == [text |-> text, entities |-> entities]
       IN  extraction' =
             [extraction EXCEPT
                !.chunks_with_entities = Append(@, chunk),
                !.sent = Append(@, chunk.text),
                !.resent = IF chunk.text \in extraction.saved
                           THEN @ \cup {chunk.text} ELSE @,
                !.pc = "open_checkpoint"]
  /\ UNCHANGED << chat, weaver, enhancer >>

\* save_data(chunks_with_entities, CHECKPOINT_FILE_PATH), the open
OpenCheckpoint ==
  /\ extraction.pc = "open_checkpoint"
  /\ extraction' =
       [extraction EXCEPT
          !.checkpoint_file = OpenedForWriting(@),
          !.pc = "dump_checkpoint"]
  /\ UNCHANGED << chat, weaver, enhancer >>

\* ... the dump and the close; the loop goes on or ends
DumpCheckpoint ==
  /\ extraction.pc = "dump_checkpoint"
  /\ extraction' =
       [extraction EXCEPT
          !.checkpoint_file = OkFile(extraction.chunks_with_entities),
          !.saved = @ \cup TextsOf(extraction.chunks_with_entities),
          !.i = @ + 1,
          !.pc = IF extraction.i + 1 < Len(extraction.knowledge_chunks)
                 THEN "extract" ELSE "open_chunks"]
  /\ UNCHANGED << chat, weaver, enhancer >>

\* save_data(chunks_with_entities, INPUT_CHUNKS_PATH), the open
OpenChunksFile ==
  /\ extraction.pc = "open_chunks"
  /\ extraction' =
       [extraction EXCEPT
          !.input_file = OpenedForWriting(@),
          !.pc = "dump_chunks"]
  /\ UNCHANGED << chat, weaver, enhancer >>

\* ... the dump and the close
DumpChunksFile ==
  /\ extraction.pc = "dump_chunks"
  /\ extraction' =
       [extraction EXCEPT
          !.input_file = OkFile(extraction.chunks_with_entities),
          !.pc = "graph"]
  /\ UNCHANGED << chat, weaver, enhancer >>

\* lines 157-159: the graph data is built and saved
SaveGraphData ==
  /\ extraction.pc = "graph"
  /\ extraction' =
       [extraction EXCEPT
          !.graph_file =
             OkFile(<< GraphFromChunks([nodes |-> {}, edges |-> {}],
                                       extraction.chunks_with_entities) >>),
          !.pc = "cleanup"]
  /\ UNCHANGED << chat, weaver, enhancer >>

\* lines 162-163
RemoveCheckpoint ==
  /\ extraction.pc = "cleanup"
  /\ extraction' =
       [extraction EXCEPT
          !.checkpoint_file = AbsentFile,
          !.pc = "done"]
  /\ UNCHANGED << chat, weaver, enhancer >>

\* the process is killed; the files stay as they are, and main can be run
\* again
InterruptGraphBuilder ==
  /\ extraction.pc \notin {"off", "done", "returned"}
  /\ extraction.crashes < MaxCrashes
  /\ extraction' =
       [extraction EXCEPT
          !.pc = "off", !.knowledge_chunks = << >>,
          !.chunks_with_entities = << >>, !.i = 0, !.crashes = @ + 1]
  /\ UNCHANGED << chat, weaver, enhancer >>

InitExtraction ==
  /\ ChatNotStarted
  /\ weaver = WeaverIdle
  /\ enhancer = EnhancerIdle
  /\ extraction = [ExtractionIdle EXCEPT !.input_file = OkFile(InputChunks)]

NextExtraction ==
  \/ StartGraphBuilder
  \/ ExtractEntities
  \/ OpenCheckpoint
  \/ DumpCheckpoint
  \/ OpenChunksFile
  \/ DumpChunksFile
  \/ SaveGraphData
  \/ RemoveCheckpoint
  \/ InterruptGraphBuilder

SpecExtraction == InitExtraction /\ [][NextExtraction]_vars

\* the list has one entry per input chunk, in input order, each with its
\* entities
OneEntryPerChunk(chunks) ==
  /\ Len(chunks) = NumChunks
  /\ \A k \in 1..NumChunks :
       /\ chunks[k].text = InputChunks[k].text
       /\ "entities" \in DOMAIN chunks[k]

\* C29: however a run of main is interrupted and restarted, no chunk whose
\* checkpoint was saved is sent for extraction again, the loop resumes at
\* the number of chunks whose checkpoint was saved, main does not give up,
\* and when it has finished the saved list has exactly one entry per input
\* chunk, in input order.
CheckpointIsCrashConsistent ==
  /\ extraction.resent = {}
  /\ extraction.pc = "extract" =>
       extraction.i = Cardinality(extraction.saved)
  /\ extraction.pc # "returned"
  /\ extraction.pc = "done" =>
       /\ extraction.input_file.state = "ok"
       /\ OneEntryPerChunk(extraction.input_file.data)

(***************************************************************************)
(* main_relation_enhancer.main: one relation per edge, with a checkpoint   *)
(***************************************************************************)
\* "if i % 10 == 0"
CHECKPOINT_EVERY == 10

\* the edges of graph_data.pkl
NumEdges == 11

\* the edges (by index) for which find_context_for_edge finds no chunk
NoContextEdges == { {}, {0}, {10}, {0, 1, 2, 3, 4}, {3, 7} }

\* what get_relationship returns in a run: the text of the model, or the
\* fixed string after three failed attempts
Relationships == { "governs", "RELATIONSHIP_EXTRACTION_FAILED" }

EdgesWithout(missing) ==
  [k \in 1..NumEdges |->
     [index |-> k - 1, has_context |-> (k - 1) \notin missing]]

\* the index the loop goes on with, and where main stands then
AfterEdge(i) ==
  [i |-> i + 1,
   pc |-> IF i + 1 < NumEdges THEN "edge" ELSE "open_output"]

\* "start_index = len(enhanced_relations)"
ResumeIndex(relations, covered) == Len(relations)

\* main up to the loop: the checkpoint, when there is one, is loaded;
\* load_data returns None for a file it cannot unpickle, and len(None)
\* raises
StartEnhancer ==
  /\ enhancer.pc = "off"
  /\ LET file == enhancer.checkpoint_file
         relations == IF file.state = "ok" THEN file.data ELSE << >>
         start_index == IF file.state = "absent" THEN 0
                        ELSE ResumeIndex(relations, enhancer.covered)
     IN  IF file.state = "truncated"
         THEN enhancer' = [enhancer EXCEPT !.pc = "raised"]
         ELSE enhancer' =
                [enhancer EXCEPT
                   !.enhanced_relations = relations,
                   !.start_index = start_index,
                   !.covered_at_start = enhancer.covered,
                   !.i = start_index,
                   !.pc = IF start_index < NumEdges THEN "edge"
                          ELSE "open_output"]
  /\ UNCHANGED << chat, weaver, extraction >>

\* lines 106-113: the relation of edge i is appended when the edge has a
\* context
EnhanceEdge ==
  /\ enhancer.pc = "edge"
  /\ LET edge == enhancer.edges[enhancer.i + 1]
         relations ==
           IF edge.has_context
           THEN Append(enhancer.enhanced_relations,
                       [edge |-> edge.index,
                        relationship |-> enhancer.relationship])
           ELSE enhancer.enhanced_relations
     IN  IF enhancer.i % CHECKPOINT_EVERY = 0
         THEN enhancer' = [enhancer EXCEPT !.enhanced_relations = relations,
                                           !.pc = "open_checkpoint"]
         ELSE enhancer' = [enhancer EXCEPT !.enhanced_relations = relations,
                                           !.i = AfterEdge(@).i,
                                           !.pc = AfterEdge(enhancer.i).pc]
  /\ UNCHANGED << chat, weaver, extraction >>

\* line 114: open(CHECKPOINT_PATH, 'wb')
OpenEnhancerCheckpoint ==
  /\ enhancer.pc = "open_checkpoint"
  /\ enhancer' = [enhancer EXCEPT !.checkpoint_file = OpenedForWriting(@),
                                  !.pc = "dump_checkpoint"]
  /\ UNCHANGED << chat, weaver, extraction >>

\* line 115: the dump and the close; the loop goes on or ends
DumpEnhancerCheckpoint ==
  /\ enhancer.pc = "dump_checkpoint"
  /\ enhancer' =
       [enhancer EXCEPT
          !.checkpoint_file = OkFile(enhancer.enhanced_relations),
          !.covered = enhancer.i + 1,
          !.i = AfterEdge(@).i,
          !.pc = AfterEdge(enhancer.i).pc]
  /\ UNCHANGED << chat, weaver, extraction >>

\* line 126: open(ENHANCED_GRAPH_DATA_PATH, 'wb')
OpenOutput ==
  /\ enhancer.pc = "open_output"
  /\ enhancer' = [enhancer EXCEPT !.output_file = OpenedForWriting(@),
                                  !.pc = "dump_output"]
  /\ UNCHANGED << chat, weaver, extraction >>

\* line 127
DumpOutput ==
  /\ enhancer.pc = "dump_output"
  /\ enhancer' =
       [enhancer EXCEPT !.output_file = OkFile(enhancer.enhanced_relations),
                        !.pc = "cleanup"]
  /\ UNCHANGED << chat, weaver, extraction >>

\* lines 132-133
RemoveEnhancerCheckpoint ==
  /\ enhancer.pc = "cleanup"
  /\ enhancer' = [enhancer EXCEPT !.checkpoint_file = AbsentFile,
                                  !.pc = "done"]
  /\ UNCHANGED << chat, weaver, extraction >>

\* the process is killed; the files stay as they are, and main can be run
\* again
InterruptEnhancer ==
  /\ enhancer.pc \notin {"off", "done", "raised"}
  /\ enhancer.crashes < MaxCrashes
  /\ enhancer' = [enhancer EXCEPT !.pc = "off", !.enhanced_relations = << >>,
                                  !.i = 0, !.start_index = 0,
                                  !.crashes = @ + 1]
  /\ UNCHANGED << chat, weaver, extraction >>

InitEnhancer ==
  /\ ChatNotStarted
  /\ weaver = WeaverIdle
  /\ extraction = ExtractionIdle
  /\ \E missing \in NoContextEdges, relationship \in Relationships :
       enhancer = [EnhancerIdle EXCEPT !.edges = EdgesWithout(missing),
                                       !.relationship = relationship]

NextEnhancer ==
  \/ StartEnhancer
  \/ EnhanceEdge
  \/ OpenEnhancerCheckpoint
  \/ DumpEnhancerCheckpoint
  \/ OpenOutput
  \/ DumpOutput
  \/ RemoveEnhancerCheckpoint
  \/ InterruptEnhancer

SpecEnhancer == InitEnhancer /\ [][NextEnhancer]_vars

\* the indices of the edges that have a context, in order
EdgesWithContext ==
  LET found == SelectSeq(enhancer.edges, LAMBDA e : e.has_context)
  IN  [k \in 1..Len(found) |-> found[k].index]

EdgesOf(relations) == [k \in 1..Len(relations) |-> relations[k].edge]

\* C30: a restarted run goes on at the first edge the checkpoint does not
\* cover, and the relations list written at the end holds exactly one
\* relation for every edge that has a context, none twice and none missing.
ResumeIsExact ==
  /\ enhancer.pc \notin {"off", "raised"} =>
       enhancer.start_index = enhancer.covered_at_start
  /\ enhancer.pc = "done" =>
       /\ enhancer.output_file.state = "ok"
       /\ EdgesOf(enhancer.output_file.data) = EdgesWithContext

====
